---------------------------- MODULE Spec2Model ----------------------------
(***************************************************************************)
(* A model of the parametric bridge configuration sampler (param_gen.py)   *)
(* and of the derived-quantity functions (utils.py,                        *)
(* BridgeModelGeneration/bridge_model.py) of CadQueryBridge.               *)
(*                                                                         *)
(* Numbers.  The program computes in binary floating point and stores      *)
(* decimals rounded with Python's round().  The model computes with exact  *)
(* integers:                                                               *)
(*   - a value stored by round(x, 1) is an integer number of tenths,       *)
(*   - a value stored by round(x, 2) is an integer number of hundredths,   *)
(*   - an unrounded value is a fraction num/den of two integers.           *)
(* random() is modelled as returning a DrawBits-bit binary fraction, so    *)
(* that the span arithmetic of pick_span is exact in floating point as     *)
(* well, and a rounding tie of the model is a rounding tie of the program. *)
(*                                                                         *)
(* The pseudo-random generator.  random.Random(seed) is a deterministic    *)
(* generator: the stream is a function of the seed.  The Mersenne Twister  *)
(* is replaced by a small multiplicative congruential generator with the   *)
(* same interface (seed, next word, map a word to a range); seeding with   *)
(* None takes the seed from the operating system's entropy, here any       *)
(* value of 0..MaxEntropy.                                                 *)
(*                                                                         *)
(* BridgeConfig.  A config is the record of the keyword arguments that     *)
(* generate_bridge_configs passes at param_gen.py:67-82.  (The dataclass   *)
(* of config.py declares the pier counts under other names; the sampler's  *)
(* own field list is what is modelled here.)                               *)
(***************************************************************************)
EXTENDS Integers, Sequences, FiniteSets, TLC

VARIABLES
    pc,            \* "idle" | "loop": where generate_bridge_configs stands
    args,          \* the arguments of the current/last call: count, bridge_type, seed
    rng,           \* state of the call's random.Random instance
    idx,           \* loop variable of `for idx in range(1, count + 1)`
    configs,       \* the list `configs` being built
    results,       \* outcomes of the finished calls, oldest first
    deckCall,      \* a direct call of pick_deck_width and its result, or None
    spacingCalls,  \* calls of the girder-spacing functions and their results
    call,          \* a call of another function or BridgeModel method and its
                   \* outcome, or None
    pipeline       \* the run of BridgePipeline.generate_bridges or of main():
                   \* its position, arguments, configs, files and log

vars == <<pc, args, rng, idx, configs, results, deckCall, spacingCalls, call, pipeline>>

samplerVars == <<pc, args, rng, idx, configs, results>>

(***************************************************************************)
(* Bounds of the model.                                                    *)
(***************************************************************************)
MaxCount == 2        \* largest `count` a call is made with
MaxSeed == 511       \* seeds 0..MaxSeed
MaxEntropy == 1      \* entropy values 0..MaxEntropy used when seed is None
DrawBits == 3        \* random() returns multiples of 2^-DrawBits
MaxWidthH == 32      \* girder-spacing widths: 1..MaxWidthH half metres
MaxMinH == 10        \* girder-spacing min_spacing: 1..MaxMinH half metres
MaxSpacingCalls == 2 \* girder-spacing calls recorded in one behaviour
MaxLengthT == 1870   \* pier positions: total_length_m of 1..MaxLengthT tenths
MaxSpans == 5        \* pier positions: num_spans of 0..MaxSpans
MaxDepthT == 45      \* box-girder cells: depth_of_girder of 1..MaxDepthT tenths
MaxBoxWidthH == 56   \* box-girder cells: width_m up to MaxBoxWidthH half metres
MaxNegWidthH == 2    \* widths down to -MaxNegWidthH half metres
MaxConfigs == 2      \* configs_to_records: lists of 0..MaxConfigs configs
MaxBridges == 2      \* generate_bridges: num_bridges of 0..MaxBridges
MaxPiersAlong == 4   \* make_piers: number_of_piers_along_length of 0..MaxPiersAlong
MaxPiersAcross == 3  \* make_piers: number_of_piers_across_width of 0..MaxPiersAcross
MaxRailingLengthT == 400 \* make_railings: total_length_m up to MaxRailingLengthT tenths

(***************************************************************************)
(* Python values.                                                          *)
(***************************************************************************)
\* Optional[T]: None is the empty tuple, a value v is <<v>>.
None == <<>>

Some(v) == <<v>>

\* Truthiness of an Optional[str], as `bridge_type or ...` tests it:
\* None and the empty string are falsy.
Truthy(opt) == opt # None /\ opt[1] # ""

Max(a, b) == IF a >= b THEN a ELSE b

\* Python round(x) for x = num/den >= 0, den > 0: nearest integer, ties to even.
RoundHalfEven(num, den) ==
    LET q == num \div den
        r == num % den
    IN  IF 2 * r < den THEN q
        ELSE IF 2 * r > den THEN q + 1
        ELSE IF q % 2 = 0 THEN q ELSE q + 1

\* Python round(x, 1) for an x = num/den the program holds exactly (a binary
\* fraction) or whose decimal tie it cannot hit: the result in tenths.
Round1(num, den) == RoundHalfEven(10 * num, den)

\* Python round(x, 2) of a value given in thousandths: the result in hundredths.
Round2(thousandths) == RoundHalfEven(thousandths, 10)

(***************************************************************************)
(* random.Random                                                           *)
(***************************************************************************)
\* Seeding: the generator's first state is a function of the seed.
RngSeed(seed) == 1 + ((seed * 7919) % 32748)

\* One step of the generator.
RngNext(x) == (x * 12001) % 32749

\* The word x mapped to 0..n-1 (the high part of the word).
RngBelow(x, n) == (x * n) \div 32749

\* random.Random(None), the generator a call would get if it ignored its seed.
RandomUnseeded(seed, entropy) == RngSeed(entropy)

\* rng = random.Random(seed)
Random(seed, entropy) ==
    IF seed = None THEN RngSeed(entropy) ELSE RngSeed(seed[1])

\* Denominator of the values of random().
D == 2 ^ DrawBits

\* rng.uniform(lo, hi) = lo + (hi - lo) * random(), times D; x is the word drawn.
uniform(lo, hi, x) == lo * D + (hi - lo) * RngBelow(x, D)

\* rng.randint(a, b); x is the word drawn.
randint(a, b, x) == a + RngBelow(x, b - a + 1)

\* rng.choice(seq); x is the word drawn.
choice(seq, x) == seq[1 + RngBelow(x, Len(seq))]

(***************************************************************************)
(* param_gen.py                                                            *)
(***************************************************************************)
\* BRIDGE_SPECS of utils.py's span table, were it used here.
BRIDGE_SPECS_utils_ranges ==
    [beam_slab  |-> [span |-> <<20, 50>>, depth_ratio |-> <<6, 7>>],
     box_girder |-> [span |-> <<50, 120>>, depth_ratio |-> <<5, 6>>]]

\* BRIDGE_SPECS with the depth ratios of the two types exchanged.
BRIDGE_SPECS_swapped_ratios ==
    [beam_slab  |-> [span |-> <<12, 18>>, depth_ratio |-> <<5, 6>>],
     box_girder |-> [span |-> <<15, 37>>, depth_ratio |-> <<6, 7>>]]

\* BRIDGE_SPECS: span in metres, depth_ratio in hundredths.
BRIDGE_SPECS ==
    [beam_slab  |-> [span |-> <<12, 18>>, depth_ratio |-> <<6, 7>>],
     box_girder |-> [span |-> <<15, 37>>, depth_ratio |-> <<5, 6>>]]

\* list(BRIDGE_SPECS.keys()): a dict keeps insertion order.
BRIDGE_SPECS_keys == <<"beam_slab", "box_girder">>

\* pick_span taking the girder depth from the total length instead of the
\* span.
pick_span_depth_of_total_length(bridge_type, x0, overhang_m) ==
    LET spec      == BRIDGE_SPECS[bridge_type]
        x1        == RngNext(x0)
        raw_span  == uniform(spec.span[1], spec.span[2], x1)
        x2        == RngNext(x1)
        ratio     == uniform(spec.depth_ratio[1], spec.depth_ratio[2], x2)
        x3        == RngNext(x2)
        num_spans == randint(2, 5, x3)
        total_length == raw_span * num_spans + 2 * overhang_m * D
    IN  [span            |-> Round1(raw_span, D),
         num_spans       |-> num_spans,
         total_length    |-> Round1(total_length, D),
         depth_of_girder |-> Round1(total_length * ratio, 100 * D * D),
         rng             |-> x3]

\* pick_span(bridge_type, rng, step, overhang_m), called with the generator in
\* state x0; overhang_m in metres.  Three draws: span, depth ratio, num_spans.
\* span, total_length and depth_of_girder are returned in tenths.
pick_span(bridge_type, x0, overhang_m) ==
    LET spec      == BRIDGE_SPECS[bridge_type]
        x1        == RngNext(x0)
        raw_span  == uniform(spec.span[1], spec.span[2], x1)      \* metres * D
        x2        == RngNext(x1)
        ratio     == uniform(spec.depth_ratio[1], spec.depth_ratio[2], x2)
                                                                  \* * 100 * D
        x3        == RngNext(x2)
        num_spans == randint(2, 5, x3)
        total_length == raw_span * num_spans + 2 * overhang_m * D \* metres * D
    IN  [span            |-> Round1(raw_span, D),
         num_spans       |-> num_spans,
         total_length    |-> Round1(total_length, D),
         depth_of_girder |-> Round1(raw_span * ratio, 100 * D * D),
         rng             |-> x3]

\* pick_deck_width of utils.py: a shoulder of 0.5 m each side, no hard strip.
pick_deck_width_utils(lanes, include_sidewalks) ==
    LET sidewalk == IF include_sidewalks THEN 1500 ELSE 0
        base     == lanes * 3500 + 2 * 500
    IN  Round2(base + 2 * sidewalk)

\* pick_deck_width(lanes, include_sidewalks): computed in thousandths of a
\* metre, returned in hundredths.
pick_deck_width(lanes, include_sidewalks) ==
    LET lane_width    == 3500
        hard_shoulder == 3000
        hard_strip    == 500
        sidewalk      == IF include_sidewalks THEN 1500 ELSE 0
        paved_width   == lanes * lane_width + 2 * (hard_shoulder + hard_strip)
    IN  Round2(paved_width + 2 * sidewalk)

\* piers_combination drawing the pier type from both types whatever the deck.
piers_combination_any(lanes, x0, bridge_type) ==
    LET x1 == RngNext(x0)
        x2 == RngNext(x1)
        x3 == RngNext(x2)
    IN  [num_of_piers_per_lane |-> 1,
         radius_of_pier        |-> 6,
         type_of_pier          |-> choice(<<"hammer_head", "multicolumn">>, x1),
         pier_cap_type         |-> choice(<<"prismatic">>, x2),
         pier_cross_section    |-> choice(<<"circular", "rectangular">>, x3),
         rng                   |-> x3]

\* piers_combination(lanes, rng, bridge_type), called with the generator in
\* state x0.  Three draws: pier type, cap type, cross-section.  radius_of_pier
\* in tenths.
piers_combination(lanes, x0, bridge_type) ==
    LET num_of_piers_per_lane == 1
        radius_of_pier        == 6
        x1 == RngNext(x0)
        type_of_pier == IF bridge_type = "box_girder"
                        THEN choice(<<"hammer_head">>, x1)
                        ELSE choice(<<"multicolumn">>, x1)
        x2 == RngNext(x1)
        pier_cap_type == choice(<<"prismatic">>, x2)
        x3 == RngNext(x2)
        pier_cross_section == choice(<<"circular", "rectangular">>, x3)
    IN  [num_of_piers_per_lane |-> num_of_piers_per_lane,
         radius_of_pier        |-> radius_of_pier,
         type_of_pier          |-> type_of_pier,
         pier_cap_type         |-> pier_cap_type,
         pier_cross_section    |-> pier_cross_section,
         rng                   |-> x3]

\* The first two statements of the loop body (lines 62-63): the type, drawn
\* only if the argument is falsy, then lanes.
PickTypeAndLanes(bridge_type, x0) ==
    LET xt == IF Truthy(bridge_type) THEN x0 ELSE RngNext(x0)
        bridge_type_picked == IF Truthy(bridge_type) THEN bridge_type[1]
                              ELSE choice(BRIDGE_SPECS_keys, xt)
        xl == RngNext(xt)
    IN  [bridge_type_picked |-> bridge_type_picked,
         lanes              |-> randint(2, 5, xl),
         rng                |-> xl]

\* The arguments generate_bridge_configs is called with.
Counts == 0 .. MaxCount

BridgeTypeArgs ==
    {None, Some(""), Some("beam_slab"), Some("box_girder"), Some("arch")}

SeedArgs == {None} \cup {Some(s) : s \in 0 .. MaxSeed}

NoArgs == [count |-> 0, bridge_type |-> None, seed |-> None]

\* No run of the pipeline yet.
NoRun ==
    [pc |-> "idle", function |-> "", include_components |-> FALSE,
     configs |-> <<>>, built |-> 0, summary |-> None, files |-> {},
     log |-> <<>>, outcome |-> None]

Init ==
    /\ pc = "idle"
    /\ args = NoArgs
    /\ rng = 0
    /\ idx = 0
    /\ configs = <<>>
    /\ results = <<>>
    /\ deckCall = None
    /\ spacingCalls = <<>>
    /\ call = None
    /\ pipeline = NoRun

\* Lines 55-59: the call starts; rng = random.Random(seed), configs = [].
Enter(count, bridge_type, seed, entropy) ==
    /\ pc' = "loop"
    /\ args' = [count |-> count, bridge_type |-> bridge_type, seed |-> seed]
    /\ rng' = Random(seed, entropy)
    /\ idx' = 1
    /\ configs' = <<>>
    /\ UNCHANGED <<results, deckCall, spacingCalls, call, pipeline>>

\* generate_bridge_configs(count, bridge_type, seed) is called.
Call ==
    /\ pc = "idle"
    /\ results = <<>>
    /\ deckCall = None
    /\ \E count \in Counts, bridge_type \in BridgeTypeArgs, seed \in SeedArgs,
          entropy \in 0 .. MaxEntropy :
          Enter(count, bridge_type, seed, entropy)

\* The caller repeats the call with the same arguments.
CallAgain ==
    /\ pc = "idle"
    /\ Len(results) = 1
    /\ deckCall = None
    /\ \E entropy \in 0 .. MaxEntropy :
          Enter(args.count, args.bridge_type, args.seed, entropy)

\* One pass of the loop body, lines 61-82, that appends a config.  bridge_id
\* f"bridge_{idx}" is represented by idx; lengths are in tenths of a metre,
\* width_m in hundredths.
IterationAppend ==
    /\ pc = "loop"
    /\ idx <= args.count
    /\ LET overhang_m        == 1
           include_sidewalks == TRUE
           tl == PickTypeAndLanes(args.bridge_type, rng)
       IN  /\ tl.bridge_type_picked \in DOMAIN BRIDGE_SPECS
           /\ LET sp == pick_span(tl.bridge_type_picked, tl.rng, overhang_m)
                  width == pick_deck_width(tl.lanes, include_sidewalks)
                  pr == piers_combination(tl.lanes, sp.rng, tl.bridge_type_picked)
              IN  /\ configs' = Append(configs,
                        [bridge_id                |-> idx,
                         bridge_type              |-> tl.bridge_type_picked,
                         span_m                   |-> sp.span,
                         num_spans                |-> sp.num_spans,
                         total_length_m           |-> sp.total_length,
                         width_m                  |-> width,
                         lanes                    |-> tl.lanes,
                         include_sidewalks        |-> include_sidewalks,
                         depth_of_girder          |-> sp.depth_of_girder,
                         number_of_piers_per_lane |-> pr.num_of_piers_per_lane,
                         radius_of_pier           |-> pr.radius_of_pier,
                         pier_type                |-> pr.type_of_pier,
                         pier_cap_type            |-> pr.pier_cap_type,
                         pier_cross_section       |-> pr.pier_cross_section])
                  /\ rng' = pr.rng
    /\ idx' = idx + 1
    /\ UNCHANGED <<pc, args, results, deckCall, spacingCalls, call, pipeline>>

\* One pass of the loop body in which BRIDGE_SPECS[bridge_type] (line 24)
\* raises KeyError: the call ends with the exception and returns nothing.
IterationKeyError ==
    /\ pc = "loop"
    /\ idx <= args.count
    /\ LET tl == PickTypeAndLanes(args.bridge_type, rng)
       IN  /\ tl.bridge_type_picked \notin DOMAIN BRIDGE_SPECS
           /\ rng' = tl.rng
    /\ results' = Append(results,
            [status |-> "raised", error |-> "KeyError", configs |-> <<>>])
    /\ pc' = "idle"
    /\ UNCHANGED <<args, idx, configs, deckCall, spacingCalls, call, pipeline>>

\* Line 84: the loop is over, `return configs`.
Return ==
    /\ pc = "loop"
    /\ idx > args.count
    /\ results' = Append(results,
            [status |-> "returned", error |-> "", configs |-> configs])
    /\ pc' = "idle"
    /\ UNCHANGED <<args, rng, idx, configs, deckCall, spacingCalls, call, pipeline>>

\* pick_deck_width(lanes, include_sidewalks) called directly.  The function
\* is pure: the call is explored before or after the sampler's two calls.
PickDeckWidthCall ==
    /\ pc = "idle"
    /\ deckCall = None
    /\ Len(results) \in {0, 2}
    /\ \E lanes \in 2 .. 5, include_sidewalks \in BOOLEAN :
          deckCall' = Some([lanes             |-> lanes,
                            include_sidewalks |-> include_sidewalks,
                            width             |-> pick_deck_width(lanes, include_sidewalks)])
    /\ UNCHANGED <<samplerVars, spacingCalls, call, pipeline>>

Next ==
    \/ Call
    \/ CallAgain
    \/ IterationAppend
    \/ IterationKeyError
    \/ Return
    \/ PickDeckWidthCall

Spec == Init /\ [][Next]_vars


(***************************************************************************)
(* Girder spacing: utils.py and BridgeModelGeneration/bridge_model.py.     *)
(* Widths and min_spacing are given in half metres (binary fractions: the  *)
(* program holds them exactly); the spacing is returned in tenths.         *)
(***************************************************************************)
\* The largest e with 2^e <= num/den, for num/den >= 1.
RECURSIVE Log2Up(_, _, _)
Log2Up(num, den, e) ==
    IF den * (2 ^ (e + 1)) <= num THEN Log2Up(num, den, e + 1) ELSE e

\* The smallest j with num * 2^j >= den, for num/den < 1.
RECURSIVE Log2Down(_, _, _)
Log2Down(num, den, j) ==
    IF num * (2 ^ j) < den THEN Log2Down(num, den, j + 1) ELSE j

\* The binary exponent of num/den > 0: floor(log2(num/den)).
Log2Floor(num, den) ==
    IF num >= den THEN Log2Up(num, den, 0) ELSE 0 - Log2Down(num, den, 0)

\* 2^s modulo m.
RECURSIVE Pow2Mod(_, _)
Pow2Mod(s, m) == IF s = 0 THEN 1 % m ELSE (2 * Pow2Mod(s - 1, m)) % m

\* Whether the double nearest to num/den lies above num/den: the fraction
\* cut off after the 53rd significant bit is more than one half.
FloatAbove(num, den) ==
    LET s    == 52 - Log2Floor(num, den)
        frac == ((num % den) * Pow2Mod(s, den)) % den
    IN  2 * frac > den

\* Whether num/den is a binary fraction (a double holds it exactly).
RECURSIVE OddPart(_)
OddPart(n) == IF n % 2 = 0 THEN OddPart(n \div 2) ELSE n

IsDyadic(num, den) == num % OddPart(den) = 0

\* Python round(num / den, 1), in tenths, of the floating-point quotient of two
\* exactly held numbers: round() rounds the double it is given, so a decimal
\* tie that no double holds goes the way the division's rounding error goes.
Round1Div(num, den) ==
    LET t == (10 * num) \div den
        r == (10 * num) % den
    IN  IF 2 * r # den \/ IsDyadic(num, den) THEN RoundHalfEven(10 * num, den)
        ELSE IF FloatAbove(num, den) THEN t + 1 ELSE t

\* compute_girder_spacing with int() in place of round().
compute_girder_spacing_truncating(width_m, min_spacing_m) ==
    LET num_of_girders == Max(2, width_m \div min_spacing_m)
    IN  <<num_of_girders, Round1Div(width_m, 2 * num_of_girders)>>

\* utils.compute_girder_spacing(width_m, min_spacing_m).
compute_girder_spacing(width_m, min_spacing_m) ==
    LET num_of_girders == Max(2, RoundHalfEven(width_m, min_spacing_m))
        spacing == Round1Div(width_m, 2 * num_of_girders)
    IN  <<num_of_girders, spacing>>

\* compute_tee_girder_spacing with int() in place of round().
compute_tee_girder_spacing_truncating(width_m, min_spacing_m) ==
    LET num_of_girders == Max(2, width_m \div min_spacing_m)
    IN  <<num_of_girders, Round1Div(width_m, 2 * num_of_girders)>>

\* compute_tee_girder_spacing with the operands of the division exchanged.
compute_tee_girder_spacing_exchanged(width_m, min_spacing_m) ==
    LET num_of_girders == Max(2, RoundHalfEven(min_spacing_m, width_m))
    IN  <<num_of_girders, Round1Div(width_m, 2 * num_of_girders)>>

\* BridgeModel.compute_tee_girder_spacing(width_m, min_spacing_m).
compute_tee_girder_spacing(width_m, min_spacing_m) ==
    LET num_of_girders == Max(2, RoundHalfEven(width_m, min_spacing_m))
        spacing == Round1Div(width_m, 2 * num_of_girders)
    IN  <<num_of_girders, spacing>>

\* The record of one call.
SpacingCall(function, width, min_spacing, result) ==
    [function    |-> function,
     width       |-> width,
     min_spacing |-> min_spacing,
     num         |-> result[1],
     spacing     |-> result[2]]

\* Whether `function` may be called: the calls of one behaviour are calls of
\* one function.
SpacingCallAllowed(function) ==
    /\ Len(spacingCalls) < MaxSpacingCalls
    /\ spacingCalls # <<>> => spacingCalls[1].function = function

\* The min_spacing of a call: any value > 0 for the first call; later calls
\* keep the first call's min_spacing.
SpacingMins ==
    IF spacingCalls = <<>> THEN 1 .. MaxMinH
    ELSE {spacingCalls[1].min_spacing}

\* utils.compute_girder_spacing is called.
ComputeGirderSpacingCall ==
    /\ SpacingCallAllowed("compute_girder_spacing")
    /\ \E width \in 1 .. MaxWidthH, min_spacing \in SpacingMins :
          spacingCalls' = Append(spacingCalls,
                SpacingCall("compute_girder_spacing", width, min_spacing,
                            compute_girder_spacing(width, min_spacing)))
    /\ UNCHANGED <<samplerVars, deckCall, call, pipeline>>

\* BridgeModel.compute_tee_girder_spacing is called.
ComputeTeeGirderSpacingCall ==
    /\ SpacingCallAllowed("compute_tee_girder_spacing")
    /\ \E width \in 1 .. MaxWidthH, min_spacing \in SpacingMins :
          spacingCalls' = Append(spacingCalls,
                SpacingCall("compute_tee_girder_spacing", width, min_spacing,
                            compute_tee_girder_spacing(width, min_spacing)))
    /\ UNCHANGED <<samplerVars, deckCall, call, pipeline>>

NextSpacing ==
    \/ ComputeGirderSpacingCall
    \/ ComputeTeeGirderSpacingCall

SpecSpacing == Init /\ [][NextSpacing]_vars

(***************************************************************************)
(* Pier positions and box-girder cells:                                    *)
(* BridgeModelGeneration/bridge_model.py and geometry/bridge_model.py.     *)
(* total_length_m and depth_of_girder are given in tenths of a metre (the  *)
(* sampler stores them rounded to 1 decimal), widths in half metres (the   *)
(* values of pick_deck_width are multiples of 0.5 m).                      *)
(*                                                                         *)
(* A tenth is not a binary fraction, so the doubles the program computes   *)
(* with are off the decimal values by their representation error.  Where   *)
(* round(x, 1) is given a double next to a decimal tie (x.x5), the side it *)
(* falls on is decided by that error: the model admits both sides.  Off a  *)
(* tie the error (about 1e-16 relative) cannot change the result.          *)
(***************************************************************************)
\* The values round(x, 1) may return, in tenths, for a double x computed for
\* num/den (den > 0): the nearest tenth, or either neighbour at a tie.
Round1Either(num, den) ==
    LET q == (10 * num) \div den
        r == (10 * num) % den
    IN  IF 2 * r < den THEN {q}
        ELSE IF 2 * r > den THEN {q + 1}
        ELSE {q, q + 1}

\* [end_span_length] + [interior_span_length] * (num_of_spans - 2)
\*                   + [end_span_length]; a list times k <= 0 is empty.
SpanList(end_span_length, interior_span_length, num_of_spans) ==
    <<end_span_length>>
        \o [i \in 1 .. Max(0, num_of_spans - 2) |-> interior_span_length]
        \o <<end_span_length>>

\* pos after the first i passes of `for span in spans[:-1]: pos += span`.
RECURSIVE PosAfter(_, _)
PosAfter(spans, i) == IF i = 0 THEN 0 ELSE PosAfter(spans, i - 1) + spans[i]

\* pier_positions: round(pos, 1) after each pass; pos is a sum of tenths.
PierPositions(spans) == [i \in 1 .. Len(spans) - 1 |-> PosAfter(spans, i)]

\* [round(p - total_length_m / 2, 1) for p in pier_positions]: every list the
\* comprehension may give.  p - total_length_m / 2 is a decimal tie for every
\* p when total_length_m is an odd number of tenths.
RECURSIVE NormalisedPierPositions(_, _)
NormalisedPierPositions(pier_positions, total_length_m) ==
    IF pier_positions = <<>> THEN {<<>>}
    ELSE {<<p>> \o rest :
            p \in Round1Either(2 * Head(pier_positions) - total_length_m, 20),
            rest \in NormalisedPierPositions(Tail(pier_positions),
                                             total_length_m)}

\* The body shared by the two pier-position methods, with the end span a
\* fraction end_tenths / 10 of the interior span: the lists it may return.
\* total_length_m / (num_of_spans - 0.6) = total_length / (10 * num_of_spans - 6)
\* metres, for total_length in tenths.
PierPositionLists(total_length_m, num_of_spans, end_tenths) ==
    LET den == 10 * num_of_spans - 6
        sgn == IF den > 0 THEN 1 ELSE -1
    IN  UNION {UNION {NormalisedPierPositions(
                          PierPositions(SpanList(end_span_length,
                                                 interior_span_length,
                                                 num_of_spans)),
                          total_length_m) :
                      end_span_length \in
                          Round1Either(end_tenths * interior_span_length, 100)} :
               interior_span_length \in
                   Round1Either(sgn * total_length_m, sgn * den)}

\* compute_pier_positions_along_length with end spans of 0.6 of the interior.
compute_pier_positions_along_length_short_ends(total_length_m, num_spans) ==
    PierPositionLists(total_length_m, num_spans, 6)

\* BridgeModel.compute_pier_positions_along_length() of
\* BridgeModelGeneration/bridge_model.py, for a config with the given
\* total_length_m and num_spans: the lists it may return.
compute_pier_positions_along_length(total_length_m, num_spans) ==
    PierPositionLists(total_length_m, num_spans, 7)

\* BridgeModel.compute_pier_positions() of geometry/bridge_model.py: the same
\* statements (and two print calls).
compute_pier_positions(total_length_m, num_spans) ==
    PierPositionLists(total_length_m, num_spans, 7)

\* compute_box_girder_spacing with the ratio taken as width over depth, as
\* make_box_girder_deck computes its own `ratio`.
compute_box_girder_spacing_width_over_depth(depth_of_girder, width_m) ==
    LET sgn == IF depth_of_girder > 0 THEN 1 ELSE -1
        num == sgn * 5 * width_m
        den == sgn * depth_of_girder
    IN  IF depth_of_girder = 0
        THEN [status |-> "raised", error |-> "ZeroDivisionError",
              num_of_cells |-> 0, box_width |-> 0]
        ELSE IF 6 * num >= den /\ 5 * num <= den
        THEN [status |-> "returned", error |-> "",
              num_of_cells |-> 1, box_width |-> 2 * (width_m - 8)]
        ELSE IF 6 * num < den
        THEN [status |-> "returned", error |-> "",
              num_of_cells |-> 2, box_width |-> width_m - 8]
        ELSE [status |-> "raised", error |-> "UnboundLocalError",
              num_of_cells |-> 0, box_width |-> 0]

\* BridgeModel.compute_box_girder_spacing() of
\* BridgeModelGeneration/bridge_model.py, for a config with the given
\* depth_of_girder (tenths) and width_m (half metres).
\* ratio = depth / width = depth_of_girder / (5 * width_m); box_width is
\* returned in quarter metres: (width_m - 8) / 2 half metres per cell count.
\* When neither test holds num_of_cells is read unassigned: Python raises
\* UnboundLocalError.
compute_box_girder_spacing(depth_of_girder, width_m) ==
    LET sgn == IF width_m > 0 THEN 1 ELSE -1
        num == sgn * depth_of_girder          \* ratio = num / den, den > 0
        den == sgn * 5 * width_m
    IN  IF width_m = 0
        THEN [status |-> "raised", error |-> "ZeroDivisionError",
              num_of_cells |-> 0, box_width |-> 0]
        ELSE IF 6 * num >= den /\ 5 * num <= den
        THEN [status |-> "returned", error |-> "",
              num_of_cells |-> 1, box_width |-> 2 * (width_m - 8)]
        ELSE IF 6 * num < den
        THEN [status |-> "returned", error |-> "",
              num_of_cells |-> 2, box_width |-> width_m - 8]
        ELSE [status |-> "raised", error |-> "UnboundLocalError",
              num_of_cells |-> 0, box_width |-> 0]

\* BridgeModel.compute_box_girder_spacing(width_m, min_spacing_m) of
\* geometry/bridge_model.py, both in half metres:
\* max(1, round(width_m / (min_spacing_m + 1)) - 1).
geometry_compute_box_girder_spacing(width_m, min_spacing_m) ==
    Max(1, RoundHalfEven(width_m, min_spacing_m + 2) - 1)

\* The inputs of the calls.
TotalLengths == 1 .. MaxLengthT

NumSpans == 0 .. MaxSpans

Depths == 1 .. MaxDepthT

BoxWidths == 0 - MaxNegWidthH .. MaxBoxWidthH

NonPositiveWidths == 0 - MaxNegWidthH .. 0

\* compute_pier_positions_along_length is called on a config.
ComputePierPositionsAlongLengthCall ==
    /\ call = None
    /\ \E total_length_m \in TotalLengths, num_spans \in NumSpans :
          \E positions \in
                compute_pier_positions_along_length(total_length_m, num_spans) :
             call' = Some([function       |-> "compute_pier_positions_along_length",
                           total_length_m |-> total_length_m,
                           num_spans      |-> num_spans,
                           status         |-> "returned",
                           positions      |-> positions])
    /\ UNCHANGED <<samplerVars, deckCall, spacingCalls, pipeline>>

\* geometry's compute_pier_positions is called on a config.
ComputePierPositionsCall ==
    /\ call = None
    /\ \E total_length_m \in TotalLengths, num_spans \in NumSpans :
          \E positions \in compute_pier_positions(total_length_m, num_spans) :
             call' = Some([function       |-> "compute_pier_positions",
                           total_length_m |-> total_length_m,
                           num_spans      |-> num_spans,
                           status         |-> "returned",
                           positions      |-> positions])
    /\ UNCHANGED <<samplerVars, deckCall, spacingCalls, pipeline>>

\* compute_box_girder_spacing() is called on a config.
ComputeBoxGirderSpacingCall ==
    /\ call = None
    /\ \E depth_of_girder \in Depths, width_m \in BoxWidths :
          LET r == compute_box_girder_spacing(depth_of_girder, width_m)
          IN  call' = Some([function        |-> "compute_box_girder_spacing",
                            depth_of_girder |-> depth_of_girder,
                            width_m         |-> width_m,
                            status          |-> r.status,
                            error           |-> r.error,
                            num_of_cells    |-> r.num_of_cells,
                            box_width       |-> r.box_width])
    /\ UNCHANGED <<samplerVars, deckCall, spacingCalls, pipeline>>

\* geometry's compute_box_girder_spacing(cfg.width_m) is called, as
\* test/test_boxgirder.py calls it, for a config with a positive width.
GeometryComputeBoxGirderSpacingCall ==
    /\ call = None
    /\ \E depth_of_girder \in Depths, width_m \in 1 .. MaxBoxWidthH :
          LET min_spacing_m == 10
          IN  call' = Some([function        |-> "geometry.compute_box_girder_spacing",
                            depth_of_girder |-> depth_of_girder,
                            width_m         |-> width_m,
                            status          |-> "returned",
                            num_of_cells    |->
                                geometry_compute_box_girder_spacing(
                                    width_m, min_spacing_m)])
    /\ UNCHANGED <<samplerVars, deckCall, spacingCalls, pipeline>>

\* compute_tee_girder_spacing is called with a width that is not positive.
ComputeTeeGirderSpacingNonPositiveCall ==
    /\ call = None
    /\ \E width_m \in NonPositiveWidths, min_spacing_m \in 1 .. MaxMinH :
          LET r == compute_tee_girder_spacing(width_m, min_spacing_m)
          IN  call' = Some([function      |-> "compute_tee_girder_spacing",
                            width_m       |-> width_m,
                            min_spacing_m |-> min_spacing_m,
                            status        |-> "returned",
                            num           |-> r[1],
                            spacing       |-> r[2]])
    /\ UNCHANGED <<samplerVars, deckCall, spacingCalls, pipeline>>

NextDerived ==
    \/ ComputePierPositionsAlongLengthCall
    \/ ComputePierPositionsCall
    \/ ComputeBoxGirderSpacingCall
    \/ GeometryComputeBoxGirderSpacingCall
    \/ ComputeTeeGirderSpacingNonPositiveCall

SpecDerived == Init /\ [][NextDerived]_vars

(***************************************************************************)
(* The component makers and build_bridge:                                  *)
(* BridgeModelGeneration/bridge_model.py and geometry/bridge_model.py.     *)
(* A solid (cq.Workplane) is the set of the names of the components whose  *)
(* material it holds: a maker's solid is {its name}, a.union(b) is the     *)
(* union of the sets and an empty Workplane is the empty set.  A config is *)
(* given by the fields the makers branch on.                               *)
(***************************************************************************)
\* The outcome of a call: a returned value, or the exception raised.
Returned(value) == [status |-> "returned", error |-> "", value |-> value]

Raised(error) == [status |-> "raised", error |-> error, value |-> None]

\* The solid a maker builds for its component.
Solid(name) == {name}

\* cq.Workplane("XY") with nothing in it.
EmptyWorkplane == {}

\* BridgeModel.make_deck(): make_beam_slab_deck or make_box_girder_deck by
\* bridge_type, ValueError otherwise.  make_box_girder_deck (line 71) calls
\* compute_box_girder_spacing, whose exception ends the call.
make_deck(config) ==
    IF config.bridge_type = "beam_slab" THEN Returned(Some(Solid("deck")))
    ELSE IF config.bridge_type = "box_girder"
    THEN LET r == compute_box_girder_spacing(config.depth_of_girder,
                                             config.width_m)
         IN  IF r.status = "raised" THEN Raised(r.error)
             ELSE Returned(Some(Solid("deck")))
    ELSE Raised("ValueError")

\* BridgeModel.make_piers() of BridgeModelGeneration/bridge_model.py: two
\* `if` statements on pier_type, then `return piers`; when neither held,
\* piers was never assigned and the return raises UnboundLocalError.  The
\* hammer_head branch (line 273) calls compute_box_girder_spacing.
make_piers(config) ==
    IF config.pier_type = "multicolumn" THEN Returned(Some(Solid("piers")))
    ELSE IF config.pier_type = "hammer_head"
    THEN LET r == compute_box_girder_spacing(config.depth_of_girder,
                                             config.width_m)
         IN  IF r.status = "raised" THEN Raised(r.error)
             ELSE Returned(Some(Solid("piers")))
    ELSE Raised("UnboundLocalError")

\* BridgeModel.make_piers() of geometry/bridge_model.py: piers starts as an
\* empty Workplane, is filled only `if pier_type == "multicolumn"`, and is
\* returned.
geometry_make_piers(config) ==
    IF config.pier_type = "multicolumn" THEN Returned(Some(Solid("piers")))
    ELSE Returned(Some(EmptyWorkplane))

\* The keys of the dict `components` of build_bridge, in insertion order.
ComponentNames ==
    <<"deck", "approach_slabs", "railings", "piers", "wing_walls", "back_walls">>

\* The six makers called on a config, in the order of the dict display
\* (lines 433-438); the makers of the approach slabs, the railings and the
\* walls build their solid whatever the config.
MakeComponents(config) ==
    <<make_deck(config),
      Returned(Some(Solid("approach_slabs"))),
      Returned(Some(Solid("railings"))),
      make_piers(config),
      Returned(Some(Solid("wing_walls"))),
      Returned(Some(Solid("back_walls")))>>

\* The makers of a subclass that overrides those in `absent` to return None,
\* as their annotations (Optional[cq.Workplane]) and the dict's annotation
\* (cq.Workplane | None, line 432) allow.
MakeComponentsOverridden(config, absent) ==
    [i \in 1 .. Len(ComponentNames) |->
        IF ComponentNames[i] \in absent THEN Returned(None)
        ELSE MakeComponents(config)[i]]

\* Lines 443-445: bridge = solid if bridge is None else bridge.union(solid),
\* over the solids in order.
RECURSIVE UnionAll(_, _)
UnionAll(solids, bridge) ==
    IF solids = <<>> THEN bridge
    ELSE UnionAll(Tail(solids),
                  IF bridge = None THEN Some(Head(solids))
                  ELSE Some(bridge[1] \cup Head(solids)))

\* The first maker that raised, if any: its exception leaves build_bridge.
FirstRaised(made) ==
    LET raisedAt == {i \in 1 .. Len(made) : made[i].status = "raised"}
    IN  IF raisedAt = {} THEN 0
        ELSE CHOOSE i \in raisedAt : \A j \in raisedAt : i <= j

\* Line 441: `filtered`, the components that are not None under their names.
Filtered(made) ==
    LET present == {i \in 1 .. Len(made) : made[i].value # None}
    IN  [name \in {ComponentNames[i] : i \in present} |->
            LET i == CHOOSE j \in present : ComponentNames[j] = name
            IN  made[i].value[1]]

\* filtered.values(): the solids that are not None, in the order of the dict.
FilteredValues(made) ==
    LET present == {i \in 1 .. Len(made) : made[i].value # None}
    IN  [k \in 1 .. Cardinality(present) |->
            LET i == CHOOSE j \in present :
                        Cardinality({h \in present : h <= j}) = k
            IN  made[i].value[1]]

\* Lines 447-453, given the `bridge` folded: ValueError if nothing was
\* folded; the value returned is the tuple (filtered, bridge), or bridge
\* alone, written <<bridge>>.
Assemble(made, bridge, with_components) ==
    IF bridge = None THEN Raised("ValueError")
    ELSE IF with_components THEN Returned(<<Filtered(made), bridge[1]>>)
    ELSE Returned(<<bridge[1]>>)

\* The fold with `bridge = solid` in place of the union.
RECURSIVE LastOnly(_, _)
LastOnly(solids, bridge) ==
    IF solids = <<>> THEN bridge ELSE LastOnly(Tail(solids), Some(Head(solids)))

\* build_bridge keeping only the last solid instead of the union.
build_bridge_last_only(made, with_components) ==
    IF FirstRaised(made) # 0 THEN Raised(made[FirstRaised(made)].error)
    ELSE Assemble(made, LastOnly(FilteredValues(made), None), with_components)

\* build_bridge without the test of line 447: an empty assembly is returned
\* as the null geometry, written as the empty solid.
build_bridge_unguarded(made, with_components) ==
    IF FirstRaised(made) # 0 THEN Raised(made[FirstRaised(made)].error)
    ELSE LET r == Assemble(made, UnionAll(FilteredValues(made), None),
                           with_components)
         IN  IF r.status = "raised"
             THEN Returned(IF with_components THEN <<<<>>, EmptyWorkplane>>
                           ELSE <<EmptyWorkplane>>)
             ELSE r

\* BridgeModel.build_bridge(with_components), given the outcomes `made` of
\* the six makers (lines 432-439).
build_bridge(made, with_components) ==
    IF FirstRaised(made) # 0 THEN Raised(made[FirstRaised(made)].error)
    ELSE Assemble(made, UnionAll(FilteredValues(made), None), with_components)

\* The configs the makers are called on: the fields they branch on.  A 12 m
\* wide deck with depths that give 2 cells, 1 cell and no cell count.
BuildConfigs ==
    [bridge_type     : {"beam_slab", "box_girder", "arch", ""},
     pier_type       : {"multicolumn", "hammer_head", "circular", ""},
     depth_of_girder : {10, 20, 40},
     width_m         : {24}]

\* The record of a call of build_bridge.
BuildBridgeRecord(config, made, with_components) ==
    LET r == build_bridge(made, with_components)
    IN  [function        |-> "build_bridge",
         config          |-> config,
         with_components |-> with_components,
         made            |-> made,
         status          |-> r.status,
         error           |-> r.error,
         value           |-> r.value]

\* build_bridge(with_components) is called on a BridgeModel.
BuildBridgeCall ==
    /\ call = None
    /\ \E config \in BuildConfigs, with_components \in BOOLEAN :
          call' = Some(BuildBridgeRecord(config, MakeComponents(config),
                                         with_components))
    /\ UNCHANGED <<samplerVars, deckCall, spacingCalls, pipeline>>

\* build_bridge(with_components) is called on a subclass of BridgeModel whose
\* makers in `absent` return None.
BuildBridgeOverriddenCall ==
    /\ call = None
    /\ \E config \in BuildConfigs, with_components \in BOOLEAN,
          absent \in SUBSET {ComponentNames[i] : i \in 1 .. Len(ComponentNames)} :
          /\ absent # {}
          /\ call' = Some(BuildBridgeRecord(config,
                              MakeComponentsOverridden(config, absent),
                              with_components))
    /\ UNCHANGED <<samplerVars, deckCall, spacingCalls, pipeline>>

\* The record of a call of a maker.
MakerRecord(function, config, r) ==
    [function |-> function, config |-> config,
     status |-> r.status, error |-> r.error, value |-> r.value]

\* make_deck() is called.
MakeDeckCall ==
    /\ call = None
    /\ \E config \in BuildConfigs :
          call' = Some(MakerRecord("make_deck", config, make_deck(config)))
    /\ UNCHANGED <<samplerVars, deckCall, spacingCalls, pipeline>>

\* make_piers() of BridgeModelGeneration/bridge_model.py is called.
MakePiersCall ==
    /\ call = None
    /\ \E config \in BuildConfigs :
          call' = Some(MakerRecord("make_piers", config, make_piers(config)))
    /\ UNCHANGED <<samplerVars, deckCall, spacingCalls, pipeline>>

\* make_piers() of geometry/bridge_model.py is called.
GeometryMakePiersCall ==
    /\ call = None
    /\ \E config \in BuildConfigs :
          call' = Some(MakerRecord("geometry.make_piers", config,
                                   geometry_make_piers(config)))
    /\ UNCHANGED <<samplerVars, deckCall, spacingCalls, pipeline>>

NextBuild ==
    \/ BuildBridgeCall
    \/ BuildBridgeOverriddenCall
    \/ MakeDeckCall
    \/ MakePiersCall
    \/ GeometryMakePiersCall

SpecBuild == Init /\ [][NextBuild]_vars

(***************************************************************************)
(* Config records: config.py and configs_to_records of param_gen.py.       *)
(* A BridgeConfig instance is the tuple of its field values in the order   *)
(* of declaration; a record (the dict asdict returns) is the sequence of   *)
(* its <<key, value>> items in insertion order.  Lengths are in tenths of  *)
(* a metre, width_m and the thicknesses in hundredths.                     *)
(***************************************************************************)
\* The fields of the dataclass BridgeConfig, in the order of declaration.
BridgeConfigFields ==
    <<"bridge_id", "bridge_type", "span_m", "num_spans", "total_length_m",
      "width_m", "lanes", "include_sidewalks", "depth_of_girder",
      "number_of_piers_along_length", "number_of_piers_across_width",
      "total_piers", "radius_of_pier", "pier_type", "pier_cap_type",
      "pier_cross_section", "top_slab_thk", "bridge_clearance_height",
      "bottom_slab_thk", "web_thk", "deck_thickness", "wing_wall_thickness">>

\* The fields declared with a default, and the defaults.
BridgeConfigDefaults ==
    [top_slab_thk            |-> 25,
     bridge_clearance_height |-> 500,
     bottom_slab_thk         |-> 35,
     web_thk                 |-> 50,
     deck_thickness          |-> 30,
     wing_wall_thickness     |-> 50]

\* The keywords generate_bridge_configs passes to BridgeConfig
\* (param_gen.py:67-82), in order.
SamplerKeywords ==
    <<"bridge_id", "bridge_type", "span_m", "num_spans", "total_length_m",
      "width_m", "lanes", "include_sidewalks", "depth_of_girder",
      "number_of_piers_per_lane", "radius_of_pier", "pier_type",
      "pier_cap_type", "pier_cross_section">>

\* The keys of a record, and the value it holds under a key.
Keys(record) == {record[i][1] : i \in DOMAIN record}

Lookup(record, key) ==
    record[CHOOSE i \in DOMAIN record : record[i][1] = key][2]

\* BridgeConfig(**record), the __init__ the dataclass generates: TypeError
\* for a key that is not a field or for a field without default that the
\* record lacks; otherwise each field takes the record's value or its default.
BridgeConfigFromRecord(record) ==
    LET fields == {BridgeConfigFields[i] : i \in DOMAIN BridgeConfigFields}
    IN  IF Keys(record) \ fields # {} THEN Raised("TypeError")
        ELSE IF (fields \ Keys(record)) \ DOMAIN BridgeConfigDefaults # {}
        THEN Raised("TypeError")
        ELSE Returned([i \in DOMAIN BridgeConfigFields |->
                          IF BridgeConfigFields[i] \in Keys(record)
                          THEN Lookup(record, BridgeConfigFields[i])
                          ELSE BridgeConfigDefaults[BridgeConfigFields[i]]])

\* dataclasses.asdict(cfg): one item per field, in the order of declaration.
asdict(cfg) == [i \in DOMAIN BridgeConfigFields |-> <<BridgeConfigFields[i], cfg[i]>>]

\* configs_to_records writing only the fields that have no default.
configs_to_records_required_only(cfgs) ==
    [k \in DOMAIN cfgs |->
        SelectSeq(asdict(cfgs[k]),
                  LAMBDA item : item[1] \notin DOMAIN BridgeConfigDefaults)]

\* configs_to_records(configs): [asdict(cfg) for cfg in configs].
configs_to_records(cfgs) == [k \in DOMAIN cfgs |-> asdict(cfgs[k])]

\* The BridgeConfig instances of the calls: four fields vary, one of them a
\* field with a default.
BridgeConfigs ==
    {<<bridge_id, bridge_type, 150, num_spans, 150 * num_spans + 20,
       2050, 3, TRUE, 10,
       num_spans - 1, 1, num_spans - 1, 6,
       IF bridge_type = "box_girder" THEN "hammer_head" ELSE "multicolumn",
       "prismatic", "circular",
       25, 500, 35, 50, deck_thickness, 50>> :
        bridge_id \in {"bridge_1", "bridge_2"},
        bridge_type \in {"beam_slab", "box_girder"},
        num_spans \in {2, 3},
        deck_thickness \in {30, 40}}

\* The lists of at most MaxConfigs configs.
ConfigLists == UNION {[1 .. n -> BridgeConfigs] : n \in 0 .. MaxConfigs}

\* configs_to_records(configs) is called.
ConfigsToRecordsCall ==
    /\ call = None
    /\ \E cfgs \in ConfigLists :
          call' = Some([function |-> "configs_to_records",
                        configs  |-> cfgs,
                        records  |-> configs_to_records(cfgs),
                        rebuilt  |-> None])
    /\ UNCHANGED <<samplerVars, deckCall, spacingCalls, pipeline>>

\* The caller constructs BridgeConfig(**record) from each record returned.
ReconstructCall ==
    /\ call # None
    /\ call[1].function = "configs_to_records"
    /\ call[1].rebuilt = None
    /\ call' = Some([call[1] EXCEPT !.rebuilt =
                        Some([k \in DOMAIN call[1].records |->
                                 BridgeConfigFromRecord(call[1].records[k])])])
    /\ UNCHANGED <<samplerVars, deckCall, spacingCalls, pipeline>>

\* BridgeConfig is called with the sampler's keywords, the values those of
\* a config.
BridgeConfigSamplerKeywordsCall ==
    /\ call = None
    /\ \E cfg \in BridgeConfigs :
          LET kwargs == [i \in DOMAIN SamplerKeywords |->
                            <<SamplerKeywords[i],
                              IF SamplerKeywords[i] = "number_of_piers_per_lane"
                              THEN 1
                              ELSE Lookup(asdict(cfg), SamplerKeywords[i])>>]
              r == BridgeConfigFromRecord(kwargs)
          IN  call' = Some([function |-> "BridgeConfig",
                            kwargs   |-> kwargs,
                            status   |-> r.status,
                            error    |-> r.error,
                            value    |-> r.value])
    /\ UNCHANGED <<samplerVars, deckCall, spacingCalls, pipeline>>

NextRecords ==
    \/ ConfigsToRecordsCall
    \/ ReconstructCall
    \/ BridgeConfigSamplerKeywordsCall

SpecRecords == Init /\ [][NextRecords]_vars

(***************************************************************************)
(* The batch pipeline: BridgeModelGeneration/bridge_pipeline.py, and       *)
(* main.py with BridgePipeline.py.                                         *)
(* bridge_id f"bridge_{idx}" is the number idx.  A file of the directory   *)
(* BridgeModels is the record of its bridge, its component ("" for the     *)
(* file of the whole bridge, next to the bridge's subdirectory) and its    *)
(* extension; the subdirectory of a bridge has the extension "/".          *)
(* The meshes are read back by an external library: which of them come     *)
(* back with no vertices is an input of each pass of the loop.             *)
(***************************************************************************)

\* The config of one pass of the sampler's loop, in the fields the makers
\* branch on: bridge_id, the type picked and the pier type that
\* piers_combination gives it; a depth of 1.0 m and the width of 2 lanes.
SampledConfig(bridge_id, bridge_type_picked) ==
    [bridge_id       |-> bridge_id,
     bridge_type     |-> bridge_type_picked,
     pier_type       |-> IF bridge_type_picked = "box_girder"
                         THEN "hammer_head" ELSE "multicolumn",
     depth_of_girder |-> 10,
     width_m         |-> pick_deck_width(2, TRUE) \div 50]

\* The outcomes of generate_bridge_configs(count, bridge_type, seed) over the
\* seeds: the type is the argument if it is truthy and drawn from
\* BRIDGE_SPECS otherwise; a truthy type that is not a key raises KeyError
\* in the first pass.
GenerateBridgeConfigsOutcomes(count, bridge_type) ==
    IF count >= 1 /\ Truthy(bridge_type) /\ bridge_type[1] \notin DOMAIN BRIDGE_SPECS
    THEN {Raised("KeyError")}
    ELSE LET types == IF Truthy(bridge_type) THEN {bridge_type[1]}
                      ELSE DOMAIN BRIDGE_SPECS
         IN  {Returned([i \in 1 .. count |-> SampledConfig(i, picked[i])]) :
                 picked \in [1 .. count -> types]}

\* A path under bridge_objects_dir.
File(bridge_id, component, ext) ==
    [bridge |-> bridge_id, component |-> component, ext |-> ext]

\* Lines 60-67 and 76-86: the solid is exported as STL and read back; if the
\* mesh has vertices the OBJ is written and the STL unlinked, otherwise the
\* STL stays.
ExportedFile(bridge_id, component, has_vertices) ==
    File(bridge_id, component, IF has_vertices THEN "obj" ELSE "stl")

\* Lines 74-87: the loop over components.items(), from the k-th name on.  A
\* component whose mesh has no vertices is logged as an error and ends
\* generate_bridges: `return`.
RECURSIVE ExportComponents(_, _, _, _, _, _)
ExportComponents(names, k, bridge_id, empty, files, log) ==
    IF k > Len(names) THEN [files |-> files, log |-> log, returned |-> FALSE]
    ELSE LET has_vertices == names[k] \notin empty
             written == files \cup {ExportedFile(bridge_id, names[k], has_vertices)}
         IN  IF has_vertices
             THEN ExportComponents(names, k + 1, bridge_id, empty, written,
                                   Append(log, <<"info", bridge_id, names[k]>>))
             ELSE [files    |-> written,
                   log      |-> Append(log, <<"error", bridge_id, names[k]>>),
                   returned |-> TRUE]

\* The names of `components` (the dict `filtered` of build_bridge) in the
\* order of the dict.
NamesInOrder(components) ==
    LET present == {i \in 1 .. Len(ComponentNames) :
                       ComponentNames[i] \in DOMAIN components}
    IN  [k \in 1 .. Cardinality(present) |->
            ComponentNames[CHOOSE j \in present :
                              Cardinality({h \in present : h <= j}) = k]]

\* A run that ended: `outcome` is what generate_bridges (or main) returned
\* or raised.
Ended(run, outcome) == [run EXCEPT !.pc = "done", !.outcome = Some(outcome)]

\* Lines 56-87: one pass of `for config in configs`, on the bridge after the
\* `built` already exported, with `empty` the meshes read back without
\* vertices ("" is the mesh of the whole bridge).  An exception of
\* build_bridge is not caught: it ends generate_bridges.
ExportBridge(run, empty) ==
    LET config    == run.configs[run.built + 1]
        bridge_id == config.bridge_id
        bridge    == build_bridge(MakeComponents(config), FALSE)
        saved     == "" \notin empty
        files1    == run.files \cup {ExportedFile(bridge_id, "", saved)}
        log1      == IF saved THEN Append(run.log, <<"info", bridge_id, "">>)
                     ELSE run.log
        exported  == [run EXCEPT !.files = files1, !.log = log1,
                                 !.built = run.built + 1]
    IN  IF bridge.status = "raised" THEN Ended(run, Raised(bridge.error))
        ELSE IF ~run.include_components THEN exported
        ELSE LET both == build_bridge(MakeComponents(config), TRUE)
                 out  == ExportComponents(NamesInOrder(both.value[1]), 1,
                             bridge_id, empty,
                             files1 \cup {File(bridge_id, "", "/")}, log1)
                 after == [exported EXCEPT !.files = out.files, !.log = out.log]
             IN  IF both.status = "raised"
                 THEN Ended([run EXCEPT !.files = files1, !.log = log1],
                            Raised(both.error))
                 ELSE IF out.returned
                 THEN Ended([after EXCEPT !.built = run.built], Returned(None))
                 ELSE after

\* The arguments of generate_bridges.
NumBridges == 0 .. MaxBridges

PipelineBridgeTypes == {None, Some("beam_slab"), Some("box_girder"), Some("arch")}

\* The meshes of one bridge: the whole bridge and its components.
MeshNames == {""} \cup {ComponentNames[i] : i \in 1 .. Len(ComponentNames)}

\* Lines 44-52: generate_bridges(num_bridges, bridge_type, include_components,
\* seed) is called; the configs are sampled and bridge_summary.json is
\* written with their records.  An exception of the sampler ends the call.
GenerateBridgesStart ==
    /\ pipeline.pc = "idle"
    /\ \E num_bridges \in NumBridges, bridge_type \in PipelineBridgeTypes,
          include_components \in BOOLEAN :
          \E sampled \in GenerateBridgeConfigsOutcomes(num_bridges, bridge_type) :
             LET run == [NoRun EXCEPT !.function = "generate_bridges",
                                      !.include_components = include_components]
             IN  pipeline' =
                    IF sampled.status = "raised"
                    THEN Ended(run, Raised(sampled.error))
                    ELSE [run EXCEPT !.pc = "loop",
                                     !.configs = sampled.value,
                                     !.summary = Some(sampled.value)]
    /\ UNCHANGED <<samplerVars, deckCall, spacingCalls, call>>

\* Lines 54-87: the next bridge is built and exported.
ExportBridgeStep ==
    /\ pipeline.pc = "loop"
    /\ pipeline.built < Len(pipeline.configs)
    /\ \E empty \in SUBSET MeshNames : pipeline' = ExportBridge(pipeline, empty)
    /\ UNCHANGED <<samplerVars, deckCall, spacingCalls, call>>

\* Line 91: the loop is over, `return configs, config_json`.
GenerateBridgesReturn ==
    /\ pipeline.pc = "loop"
    /\ pipeline.built = Len(pipeline.configs)
    /\ pipeline' = Ended(pipeline,
                         Returned(<<pipeline.configs, pipeline.summary[1]>>))
    /\ UNCHANGED <<samplerVars, deckCall, spacingCalls, call>>

\* The binding of a call's arguments to a function's parameters (after
\* self): "TypeError" when there are too many positional arguments, a
\* keyword names no parameter, a parameter gets a positional and a keyword
\* value, or a parameter without default gets none; "" when the call binds.
\* `required` is the number of leading parameters without a default.
BindArguments(parameters, required, positional, keywords) ==
    LET names == {parameters[i] : i \in 1 .. Len(parameters)}
    IN  IF \/ positional > Len(parameters)
           \/ keywords \ names # {}
           \/ \E i \in 1 .. Len(parameters) :
                 i <= positional /\ parameters[i] \in keywords
           \/ \E i \in 1 .. required :
                 i > positional /\ parameters[i] \notin keywords
        THEN "TypeError"
        ELSE ""

\* The parameters of BridgePipeline.generate_bridges of BridgePipeline.py,
\* the class main.py imports; the first three have no default.
BridgePipeline_generate_bridges_parameters ==
    <<"num_bridges", "step", "include_sidewalks", "seed", "overhang_m">>

\* main(): pipeline.generate_bridges(args.num_bridges, args.bridge_type,
\* args.step, args.include_sidewalks, seed=None, overhang_m=1.0) passes four
\* positional arguments and two keywords; the call does not bind, main ends
\* with the TypeError before anything is built and before its own
\* bridge_summary.json (lines 25-26) is written.
MainCall ==
    /\ pipeline.pc = "idle"
    /\ LET error == BindArguments(BridgePipeline_generate_bridges_parameters, 3,
                                  4, {"seed", "overhang_m"})
       IN  /\ error # ""
           /\ pipeline' = Ended([NoRun EXCEPT !.function = "main"], Raised(error))
    /\ UNCHANGED <<samplerVars, deckCall, spacingCalls, call>>

NextPipeline ==
    \/ GenerateBridgesStart
    \/ ExportBridgeStep
    \/ GenerateBridgesReturn
    \/ MainCall

SpecPipeline == Init /\ [][NextPipeline]_vars

(***************************************************************************)
(* The layout of the components: BridgeModelGeneration/bridge_model.py.    *)
(* A solid of the CAD kernel is kept as the extents it is built with.      *)
(* X runs along the bridge, Y across it, Z upwards, the deck surface being *)
(* at z = 0.  Heights (z) are in twentieths of a metre, so that half a     *)
(* height given in tenths is whole; depth_of_girder,                       *)
(* bridge_clearance_height and total_length_m are given in tenths, widths  *)
(* in half metres.                                                         *)
(***************************************************************************)

Min(a, b) == IF a <= b THEN a ELSE b

\* .extrude(distance) of a sketch on the XY plane: from z = 0 to z =
\* distance, downwards if the distance is negative.
Extrude(distance) == <<Min(0, distance), Max(0, distance)>>

\* One side of .rect(xLen, yLen, centered) of the given length: centred on
\* the origin whatever the sign of the length, or from the origin to the
\* length.
RectSide(length, centered) ==
    IF centered
    THEN <<0 - Max(length, 0 - length) \div 2, Max(length, 0 - length) \div 2>>
    ELSE <<Min(0, length), Max(0, length)>>

\* .translate along one axis.
Translate(extent, by) == <<extent[1] + by, extent[2] + by>>

\* The column of make_piers: a circle or rectangle on the XY plane extruded
\* by -bridge_clearance_height (lines 259, 261, 301), or, for the
\* rectangular column of a hammer-head pier (line 303), a rectangle on the YZ
\* plane of height -bridge_clearance_height, centred by default, extruded
\* along X.  Heights in twentieths.
PierColumnExtent(pier_type, pier_cross_section, bridge_clearance_height) ==
    IF pier_type = "hammer_head" /\ pier_cross_section = "rectangular"
    THEN RectSide(0 - bridge_clearance_height, TRUE)
    ELSE Extrude(0 - bridge_clearance_height)

\* cap_height in twentieths: 0.5 m for the prismatic cap of multicolumn
\* piers (line 249), polygon_height + polygon_slant_height = 2 m for the
\* hammer head (lines 277-289).
PierCapHeight(pier_type) == IF pier_type = "multicolumn" THEN 10 ELSE 40

\* pier_position_y (lines 257, 297) for column j of num_of_piers_y:
\* -(pier_spacing_y * (n - 1) / 2) + pier_spacing_y * j with pier_spacing_y
\* = width_m / n, as a multiple of 1 / (2 n) of the width's unit.
PierPositionY(width_m, num_of_piers_y, j) ==
    width_m * (2 * j - (num_of_piers_y - 1))

\* BridgeModel.make_piers(): the solids unioned into `piers`, given the list
\* pier_positions_x that line 236 computed.  z in twentieths of a metre.
\*  - pier_positions_x[i] for i in range(number_of_piers_along_length):
\*    IndexError beyond the list;
\*  - width_m / num_of_piers_y: ZeroDivisionError;
\*  - a cross-section that is neither circular nor rectangular leaves `pier`
\*    (line 262) or polygon_lower_width (line 286) unassigned;
\*  - the hammer-head branch calls compute_box_girder_spacing (line 273).
make_piers_solids(config, pier_positions_x) ==
    LET num_of_piers_x == config.number_of_piers_along_length
        num_of_piers_y == config.number_of_piers_across_width
        cap_height     == PierCapHeight(config.pier_type)
        soffit         == 0 - 2 * config.depth_of_girder
        column_z       == Translate(PierColumnExtent(config.pier_type,
                                        config.pier_cross_section,
                                        2 * config.bridge_clearance_height),
                                    soffit - cap_height)
        column(i, j)   == [kind |-> "column", i |-> i, j |-> j,
                           x |-> pier_positions_x[i],
                           y |-> PierPositionY(config.width_m, num_of_piers_y, j - 1),
                           z |-> column_z]
        columns        == {column(i, j) : i \in 1 .. num_of_piers_x,
                                          j \in 1 .. num_of_piers_y}
        prismatic_caps == {[kind |-> "cap", i |-> i, j |-> 0,
                            x |-> pier_positions_x[i], y |-> 0,
                            z |-> Translate(<<0, cap_height>>, soffit - cap_height)] :
                              i \in 1 .. num_of_piers_x}
        hammer_heads   == {[kind |-> "cap", i |-> i, j |-> j,
                            x |-> pier_positions_x[i],
                            y |-> PierPositionY(config.width_m, num_of_piers_y, j - 1),
                            z |-> Translate(<<0 - cap_height, 0>>, soffit)] :
                              i \in 1 .. num_of_piers_x, j \in 1 .. num_of_piers_y}
        boxes          == compute_box_girder_spacing(config.depth_of_girder,
                                                     config.width_m)
        cross_section_known ==
            config.pier_cross_section \in {"circular", "rectangular"}
    IN  IF config.pier_type \notin {"multicolumn", "hammer_head"}
        THEN Raised("UnboundLocalError")
        ELSE IF config.pier_type = "hammer_head" /\ boxes.status = "raised"
        THEN Raised(boxes.error)
        ELSE IF num_of_piers_y = 0 THEN Raised("ZeroDivisionError")
        ELSE IF config.pier_type = "hammer_head" /\ ~cross_section_known
        THEN Raised("UnboundLocalError")
        ELSE IF num_of_piers_x = 0 THEN Returned({})
        ELSE IF Len(pier_positions_x) = 0 THEN Raised("IndexError")
        ELSE IF ~cross_section_known THEN Raised("UnboundLocalError")
        ELSE IF num_of_piers_x > Len(pier_positions_x) THEN Raised("IndexError")
        ELSE IF config.pier_type = "multicolumn"
        THEN Returned(columns \cup prismatic_caps)
        ELSE Returned(columns \cup hammer_heads)

\* The configs make_piers is called on, in the fields it reads.
PierConfigs ==
    [pier_type                    : {"multicolumn", "hammer_head"},
     pier_cross_section           : {"circular", "rectangular", "square"},
     num_spans                    : 2 .. 4,
     total_length_m               : {300, 1500},
     width_m                      : {34, 48},
     depth_of_girder              : {10, 22},
     bridge_clearance_height      : {45, 50},
     number_of_piers_along_length : 0 .. MaxPiersAlong,
     number_of_piers_across_width : 0 .. MaxPiersAcross]

\* make_piers() is called on a config: line 236 computes the positions, the
\* branches build the solids.
MakePiersSolidsCall ==
    /\ call = None
    /\ \E config \in PierConfigs :
          \E pier_positions_x \in
                compute_pier_positions_along_length(config.total_length_m,
                                                    config.num_spans) :
             LET r == make_piers_solids(config, pier_positions_x)
             IN  call' = Some([function         |-> "make_piers (solids)",
                               config           |-> config,
                               pier_positions_x |-> pier_positions_x,
                               status           |-> r.status,
                               error            |-> r.error,
                               value            |-> r.value])
    /\ UNCHANGED <<samplerVars, deckCall, spacingCalls, pipeline>>

\* BridgeModel.make_railings(), for a deck of total_length_m tenths.  X in
\* twentieths of a metre.  num_of_poles = max(2, int(deck_length / 2.5));
\* pole i stands at -(2.5 * (num_of_poles - 1) / 2) + 2.5 * i; each of the 3
\* bars of a side is a box of length deck_length - railing_pole_distance
\* centred on x = 0 (line 200); poles and bars are mirrored to the other
\* side (lines 189, 203).
make_railings(total_length_m) ==
    LET railing_pole_distance == 25
        num_of_poles == Max(2, total_length_m \div railing_pole_distance)
        num_of_bars  == 3
        bar_x        == RectSide(2 * (total_length_m - railing_pole_distance), TRUE)
    IN  [num_of_poles |-> num_of_poles,
         poles |-> [i \in 1 .. num_of_poles |->
                       0 - railing_pole_distance * (num_of_poles - 1)
                         + 2 * railing_pole_distance * (i - 1)],
         bars  |-> [side : {"left", "right"}, bar : 1 .. num_of_bars, x : {bar_x}]]

\* The deck lengths of the railings: from 2.6 m, so that the bars have a
\* positive length.
RailingLengths == 26 .. MaxRailingLengthT

\* make_railings() is called on a config.
MakeRailingsCall ==
    /\ call = None
    /\ \E total_length_m \in RailingLengths :
          LET r == make_railings(total_length_m)
          IN  call' = Some([function       |-> "make_railings",
                            total_length_m |-> total_length_m,
                            status         |-> "returned",
                            num_of_poles   |-> r.num_of_poles,
                            poles          |-> r.poles,
                            bars           |-> r.bars])
    /\ UNCHANGED <<samplerVars, deckCall, spacingCalls, pipeline>>

\* BridgeModel.make_box_girder_deck(), for a config with the given
\* depth_of_girder (tenths) and width_m (half metres).  Y in eighths of a
\* metre.  Line 71 takes num_cells and box_width (here in quarter metres)
\* from compute_box_girder_spacing, whose exception ends the call; cell i is
\* a box of width box_width centred on box_center_y (lines 86, 91); the
\* haunch is the polygon of lines 98-103, from y = box_width (p1, p4) to
\* y = width_m / 2 (p2, p3), and its mirror image (line 106); the top slab is
\* centred and total_width wide (line 78).
make_box_girder_deck(depth_of_girder, width_m) ==
    LET spacing   == compute_box_girder_spacing(depth_of_girder, width_m)
        num_cells == spacing.num_of_cells
        box_width == 2 * spacing.box_width
        box_center_y(i) == 0 - ((num_cells - 1) * box_width) \div 2 + box_width * i
        p1_y      == box_width
        p2_y      == 2 * width_m
    IN  IF spacing.status = "raised" THEN Raised(spacing.error)
        ELSE Returned([num_cells |-> num_cells,
                       top_slab  |-> RectSide(4 * width_m, TRUE),
                       cells     |-> [i \in 1 .. num_cells |->
                                        Translate(RectSide(box_width, TRUE),
                                                  box_center_y(i - 1))],
                       haunch        |-> <<p1_y, p2_y>>,
                       haunch_mirror |-> <<0 - p2_y, 0 - p1_y>>])

\* make_box_girder_deck() is called on a config.
MakeBoxGirderDeckCall ==
    /\ call = None
    /\ \E depth_of_girder \in Depths, width_m \in 9 .. MaxBoxWidthH :
          LET r == make_box_girder_deck(depth_of_girder, width_m)
          IN  call' = Some([function        |-> "make_box_girder_deck",
                            depth_of_girder |-> depth_of_girder,
                            width_m         |-> width_m,
                            status          |-> r.status,
                            error           |-> r.error,
                            value           |-> r.value])
    /\ UNCHANGED <<samplerVars, deckCall, spacingCalls, pipeline>>

\* The least and the greatest of a non-empty set of numbers.
Least(S) == CHOOSE x \in S : \A y \in S : x <= y

Greatest(S) == CHOOSE x \in S : \A y \in S : x >= y

\* BridgeModel.make_wing_walls(): the four walls extrude the profile p1..p7
\* of lines 345-368 in the XZ plane; their z extent is that of the profile.
\* z in twentieths of a metre.
make_wing_walls(config) ==
    LET bridge_seating_height == 2 * config.depth_of_girder
        wing_wall_cap_height  == config.bridge_clearance_height  \* 0.5 * height
        wing_wall_side_length == 2 * config.bridge_clearance_height
        z_origin == 0 - 2 * config.bridge_clearance_height
                      - 2 * config.depth_of_girder
        p1 == z_origin
        p2 == z_origin
        p3 == z_origin + bridge_seating_height + wing_wall_side_length
                       - wing_wall_cap_height
        p4 == z_origin + bridge_seating_height + wing_wall_side_length
        p5 == p4
        p6 == p5 - bridge_seating_height
        p7 == z_origin + wing_wall_side_length
        points == {p1, p2, p3, p4, p5, p6, p7}
    IN  [name : {"left_front", "right_front", "left_back", "right_back"},
         z    : {<<Least(points), Greatest(points)>>}]

\* BridgeModel.make_back_walls(): a box of height bridge_clearance_height
\* standing on z = -depth_of_girder - bridge_clearance_height and its mirror
\* image, and the thinner closure wall of height bridge_clearance_height +
\* depth_of_girder on the same level with its mirror image.
make_back_walls(config) ==
    LET base == 0 - 2 * config.depth_of_girder - 2 * config.bridge_clearance_height
        back_wall    == Translate(RectSide(2 * config.bridge_clearance_height, FALSE),
                                  base)
        thinner_wall == Translate(RectSide(2 * config.bridge_clearance_height
                                             + 2 * config.depth_of_girder, FALSE),
                                  base)
    IN  [name : {"back_wall", "wall_mirror"}, z : {back_wall}]
          \cup [name : {"thinner_wall", "thinner_wall_mirror"}, z : {thinner_wall}]

\* Lines 436-438 of build_bridge: the piers, the wing walls and the back
\* walls are made for one config.
MakeGroundComponentsCall ==
    /\ call = None
    /\ \E config \in PierConfigs :
          \E pier_positions_x \in
                compute_pier_positions_along_length(config.total_length_m,
                                                    config.num_spans) :
             LET piers == make_piers_solids(config, pier_positions_x)
             IN  call' = Some([function   |-> "build_bridge (piers and walls)",
                               config     |-> config,
                               status     |-> piers.status,
                               error      |-> piers.error,
                               value      |-> piers.value,
                               wing_walls |-> IF piers.status = "raised" THEN {}
                                              ELSE make_wing_walls(config),
                               back_walls |-> IF piers.status = "raised" THEN {}
                                              ELSE make_back_walls(config)])
    /\ UNCHANGED <<samplerVars, deckCall, spacingCalls, pipeline>>

NextLayout ==
    \/ MakePiersSolidsCall
    \/ MakeRailingsCall
    \/ MakeBoxGirderDeckCall
    \/ MakeGroundComponentsCall

SpecLayout == Init /\ [][NextLayout]_vars

(***************************************************************************)
(* Properties of the sampler.                                              *)
(***************************************************************************)
\* The configs of the calls that returned.
ReturnedConfigs ==
    UNION {{results[i].configs[j] : j \in 1 .. Len(results[i].configs)} :
           i \in 1 .. Len(results)}

\* A bridge_type argument that is a string outside the supported set.
Unsupported(bridge_type) ==
    bridge_type # None /\ bridge_type[1] \notin {"beam_slab", "box_girder"}

DeckWidthFormula(lanes, include_sidewalks) ==
    lanes * 350 + 2 * (300 + 50) + 2 * (IF include_sidewalks THEN 150 ELSE 0)

SpacingCallIndices == 1 .. Len(spacingCalls)

\* C8: count = max(2, round(width / min_spacing)): count is 2 when the
\* quotient is below 1.5 and otherwise an integer nearest to the quotient;
\* spacing is width / count to the nearest tenth; count >= 2; and the four
\* worked examples (8.0, 3.5) -> (2, 4.0), (10.5, 3.5) -> (3, 3.5),
\* (14.0, 3.5) -> (4, 3.5), (12.0, 4.0) -> (3, 4.0).
C8_GirderSpacingFormula ==
    \A i \in SpacingCallIndices :
        LET c == spacingCalls[i]
            w == c.width
            m == c.min_spacing
        IN  /\ c.num = Max(2, RoundHalfEven(w, m))
            /\ c.num >= 2
            /\ 2 * w < 3 * m => c.num = 2
            /\ 2 * w >= 3 * m =>
                  (2 * c.num * m - m <= 2 * w /\ 2 * w <= 2 * c.num * m + m)
            /\ 2 * c.num * c.spacing - c.num <= 10 * w
            /\ 10 * w <= 2 * c.num * c.spacing + c.num
            /\ (w = 16 /\ m = 7) => (c.num = 2 /\ c.spacing = 40)
            /\ (w = 21 /\ m = 7) => (c.num = 3 /\ c.spacing = 35)
            /\ (w = 28 /\ m = 7) => (c.num = 4 /\ c.spacing = 35)
            /\ (w = 24 /\ m = 8) => (c.num = 3 /\ c.spacing = 40)

\* utils.compute_girder_spacing was called with (8.0, 3.5) and (10.5, 3.5).
C8_Witness ==
    /\ Len(spacingCalls) = 2
    /\ spacingCalls[1] = SpacingCall("compute_girder_spacing", 16, 7, <<2, 40>>)
    /\ spacingCalls[2] = SpacingCall("compute_girder_spacing", 21, 7, <<3, 35>>)

\* C9 as claimed: the spacing is at most min_spacing, except when the count
\* is 2 because it was raised to the floor of 2.
C9_SpacingAtMostMin ==
    \A i \in SpacingCallIndices :
        LET c == spacingCalls[i]
        IN  \/ c.spacing <= 5 * c.min_spacing
            \/ (c.num = 2 /\ RoundHalfEven(c.width, c.min_spacing) < 2)

\* C9 as amended: when count * min_spacing >= width (the quotient was rounded
\* up or is whole, or the count was raised to 2) the spacing is at most
\* min_spacing + 0.05; in every case, the quotient rounded down included,
\* spacing <= min_spacing * (count + 0.5) / count + 0.05.
C9_SpacingBound ==
    \A i \in SpacingCallIndices :
        LET c == spacingCalls[i]
            w == c.width
            m == c.min_spacing
        IN  /\ c.num * m >= w => 2 * c.spacing <= 10 * m + 1
            /\ 2 * c.spacing * c.num <= 10 * m * c.num + 5 * m + c.num

\* compute_tee_girder_spacing returned a count of 3 or more, not raised to
\* the floor, with a spacing above min_spacing: (12.0, 3.5) -> (3, 4.0).
C9_Witness ==
    \E i \in SpacingCallIndices :
        spacingCalls[i] =
            SpacingCall("compute_tee_girder_spacing", 24, 7, <<3, 40>>)

\* C10: for a fixed min_spacing and widths w1 <= w2, the count returned for
\* w2 is not smaller than the count returned for w1.
C10_CountMonotonicInWidth ==
    \A i, j \in SpacingCallIndices :
        (/\ spacingCalls[i].function = spacingCalls[j].function
         /\ spacingCalls[i].min_spacing = spacingCalls[j].min_spacing
         /\ spacingCalls[i].width <= spacingCalls[j].width)
            => spacingCalls[i].num <= spacingCalls[j].num

\* Two calls of compute_tee_girder_spacing with the same min_spacing: the
\* wider deck, called first, got more girders than the narrower one.
C10_Witness ==
    /\ Len(spacingCalls) = 2
    /\ spacingCalls[1].function = "compute_tee_girder_spacing"
    /\ spacingCalls[2].function = "compute_tee_girder_spacing"
    /\ spacingCalls[1].width > spacingCalls[2].width
    /\ spacingCalls[1].num > spacingCalls[2].num
    /\ spacingCalls[2].num > 2

(***************************************************************************)
(* Properties of the pier positions and of the box-girder cells (under     *)
(* SpecDerived).                                                           *)
(***************************************************************************)
\* The call recorded is a call of `function`.
Called(function) == call # None /\ call[1].function = function

CalledPierPositions ==
    \/ Called("compute_pier_positions_along_length")
    \/ Called("compute_pier_positions")

Abs(x) == IF x >= 0 THEN x ELSE 0 - x

StrictlyIncreasing(s) == \A i \in 1 .. Len(s) - 1 : s[i] < s[i + 1]

\* No rounding of the call c of a pier-position method was at a tie: the list
\* recorded is the one list the method can return.
RoundingsOffTies(c) ==
    Cardinality(PierPositionLists(c.total_length_m, c.num_spans, 7)) = 1

\* C11: for every config with num_spans >= 2 and a positive total_length_m,
\* compute_pier_positions_along_length returns exactly num_spans - 1
\* coordinates, in strictly increasing order; num_spans = 2 gives exactly one.
\* Stated for the configs whose roundings are off ties.
C11_PierCountAndOrder ==
    (Called("compute_pier_positions_along_length")
        /\ call[1].num_spans >= 2 /\ call[1].total_length_m > 0
        /\ RoundingsOffTies(call[1])) =>
        /\ call[1].status = "returned"
        /\ Len(call[1].positions) = call[1].num_spans - 1
        /\ StrictlyIncreasing(call[1].positions)
        /\ call[1].num_spans = 2 => Len(call[1].positions) = 1

\* The first span, from the deck start at -total_length_m / 2 to the first
\* pier, and the second span positions[1] - positions[0], in twentieths of a
\* metre.
FirstSpan20(c) == 2 * c.positions[1] + c.total_length_m

SecondSpan20(c) == 2 * (c.positions[2] - c.positions[1])

\* first span / second span is 0.7 within 1e-2.
RatioIsSevenTenths(c) ==
    /\ SecondSpan20(c) > 0
    /\ Abs(100 * FirstSpan20(c) - 70 * SecondSpan20(c)) <= SecondSpan20(c)

C13_DegenerateInputRejected ==
    /\ (CalledPierPositions /\ call[1].num_spans < 2
            /\ RoundingsOffTies(call[1])) =>
          call[1].status = "raised"
    /\ ((Called("compute_box_girder_spacing")
            \/ Called("compute_tee_girder_spacing")) /\ call[1].width_m <= 0) =>
          call[1].status = "raised"

\* C14: for a positive width, 1 cell when depth / width is in [1/6, 1/5]
\* (as for depth 1.8, width 10: ratio 0.18), 2 cells when it is below 1/6 (as
\* for depth 1.0, width 10: ratio 0.1), and in both cases
\* cell_width = (width - 4) / num_cells (box_width in quarter metres).
C14_BoxGirderCellLayout ==
    (Called("compute_box_girder_spacing") /\ call[1].width_m > 0) =>
        LET c == call[1]
            d == c.depth_of_girder
            w == c.width_m
        IN  /\ (6 * d >= 5 * w /\ d <= w) =>
                  (c.status = "returned" /\ c.num_of_cells = 1)
            /\ 6 * d < 5 * w =>
                  (c.status = "returned" /\ c.num_of_cells = 2)
            /\ c.status = "returned" =>
                  c.num_of_cells * c.box_width = 2 * (w - 8)
            /\ (d = 18 /\ w = 20) => c.num_of_cells = 1
            /\ (d = 10 /\ w = 20) => c.num_of_cells = 2

\* The layout was computed for depth 1.8 and width 10 (ratio 0.18): 1 cell of
\* 6 m.
C14_Witness ==
    /\ Called("compute_box_girder_spacing")
    /\ call[1].depth_of_girder = 18
    /\ call[1].width_m = 20
    /\ call[1].num_of_cells = 1
    /\ call[1].box_width = 24

\* C15: for every positive depth and width, a ratio above 1/5 included, the
\* cell layout is computed and the cell count is 1 or 2.
C15_CellCountAlwaysDefined ==
    (Called("compute_box_girder_spacing")
        /\ call[1].depth_of_girder > 0 /\ call[1].width_m > 0) =>
        /\ call[1].status = "returned"
        /\ call[1].num_of_cells \in {1, 2}

\* C16: for a 12 m wide config, compute_box_girder_spacing(cfg.width_m)
\* returns 3 cells at depth 1.0, 2 cells at depth 2.0 and 1 cell at depth 4.0.
C16_CellsFallWithDepth ==
    (Called("geometry.compute_box_girder_spacing") /\ call[1].width_m = 24) =>
        /\ call[1].depth_of_girder = 10 => call[1].num_of_cells = 3
        /\ call[1].depth_of_girder = 20 => call[1].num_of_cells = 2
        /\ call[1].depth_of_girder = 40 => call[1].num_of_cells = 1

(***************************************************************************)
(* Properties of build_bridge and of the makers (under SpecBuild).         *)
(***************************************************************************)
\* The names of the components of the call c of build_bridge that are not
\* None.
PresentNames(c) ==
    {ComponentNames[i] : i \in {j \in 1 .. Len(c.made) : c.made[j].value # None}}

\* The bridge solid in the value returned by the call c of build_bridge.
ReturnedBridge(c) == c.value[Len(c.value)]

C18_NeverEmptyAssembly ==
    Called("build_bridge") =>
        LET c == call[1]
        IN  /\ (FirstRaised(c.made) = 0 /\ PresentNames(c) = {}) =>
                  (c.status = "raised" /\ c.error = "ValueError")
            /\ c.status = "returned" =>
                  /\ PresentNames(c) # {}
                  /\ ReturnedBridge(c) # EmptyWorkplane
                  /\ c.with_components => DOMAIN c.value[1] # {}

\* build_bridge was called with every maker returning None and failed.
C18_Witness ==
    /\ Called("build_bridge")
    /\ FirstRaised(call[1].made) = 0
    /\ PresentNames(call[1]) = {}
    /\ call[1].status = "raised"
    /\ call[1].error = "ValueError"

\* C19: make_deck on a bridge_type other than beam_slab / box_girder, and
\* make_piers on a pier_type other than multicolumn / hammer_head, fail with
\* the invalid-configuration error (ValueError, as make_deck raises it) and
\* return no component.
C19_UnknownTypeFails ==
    /\ (Called("make_deck")
            /\ call[1].config.bridge_type \notin {"beam_slab", "box_girder"}) =>
          (call[1].status = "raised" /\ call[1].error = "ValueError")
    /\ ((Called("make_piers") \/ Called("geometry.make_piers"))
            /\ call[1].config.pier_type \notin {"multicolumn", "hammer_head"}) =>
          (call[1].status = "raised" /\ call[1].error = "ValueError")

(***************************************************************************)
(* Properties of the config records (under SpecRecords).                   *)
(***************************************************************************)
\* C20: configs_to_records gives one record per config, in the same order,
\* whose keys are exactly the BridgeConfig field names and whose values are
\* the config's; constructing a BridgeConfig from each record gives a config
\* equal to the original in every field.
C20_RecordRoundTrip ==
    Called("configs_to_records") =>
        LET c == call[1]
        IN  /\ Len(c.records) = Len(c.configs)
            /\ \A k \in DOMAIN c.records :
                  /\ [i \in DOMAIN c.records[k] |-> c.records[k][i][1]]
                        = BridgeConfigFields
                  /\ \A i \in DOMAIN BridgeConfigFields :
                        Lookup(c.records[k], BridgeConfigFields[i])
                            = c.configs[k][i]
            /\ c.rebuilt # None =>
                  /\ Len(c.rebuilt[1]) = Len(c.configs)
                  /\ \A k \in DOMAIN c.configs :
                        /\ c.rebuilt[1][k].status = "returned"
                        /\ c.rebuilt[1][k].value = c.configs[k]

\* Two configs that differ, one with a deck_thickness other than the default,
\* were converted and constructed again.
C20_Witness ==
    /\ Called("configs_to_records")
    /\ Len(call[1].configs) = 2
    /\ call[1].configs[1] # call[1].configs[2]
    /\ call[1].configs[1][21] = 40
    /\ call[1].rebuilt # None
    /\ call[1].rebuilt[1][1].value = call[1].configs[1]
    /\ call[1].rebuilt[1][2].value = call[1].configs[2]


(***************************************************************************)
(* Properties of the batch pipeline (under SpecPipeline).                  *)
(***************************************************************************)

\* generate_bridges has ended, by return or by exception, after its configs
\* were sampled.
GenerateBridgesEnded ==
    /\ pipeline.function = "generate_bridges"
    /\ pipeline.pc = "done"
    /\ pipeline.summary # None

LogEntries == {pipeline.log[i] : i \in 1 .. Len(pipeline.log)}

\* A mesh of the bridge was read back without vertices (its STL was left
\* unconverted), or build_bridge raised on it.
ExportFailed(i) ==
    \/ \E f \in pipeline.files :
          f.bridge = pipeline.configs[i].bridge_id /\ f.ext = "stl"
    \/ pipeline.outcome # None /\ pipeline.outcome[1].status = "raised"
                               /\ i = pipeline.built + 1

\* C21: a failure on bridge i (a build error, or a mesh of the bridge or of
\* one of its components without vertices) is reported, and every later
\* bridge i+1..n is still built and exported: when generate_bridges ends,
\* each failed bridge has an error in the log and every bridge after it has
\* its mesh file.
C21_FailureIsolatedPerBridge ==
    GenerateBridgesEnded =>
        \A i \in DOMAIN pipeline.configs :
            ExportFailed(i) =>
                /\ \E entry \in LogEntries :
                      entry[1] = "error" /\ entry[2] = pipeline.configs[i].bridge_id
                /\ \A j \in i + 1 .. Len(pipeline.configs) :
                      \E f \in pipeline.files :
                          /\ f.bridge = pipeline.configs[j].bridge_id
                          /\ f.component = ""
                          /\ f.ext \in {"obj", "stl"}

\* C22: bridge_summary.json is written only after all bridges of the batch
\* have been built and exported, never before the first build starts.
C22_SummaryWrittenAtCompletion ==
    (pipeline.function = "generate_bridges" /\ pipeline.summary # None) =>
        pipeline.built = Len(pipeline.configs)

MeshFiles(bridge_id, component) ==
    {f \in pipeline.files : /\ f.bridge = bridge_id
                            /\ f.component = component
                            /\ f.ext \in {"obj", "stl"}}

\* C23: when generate_bridges has ended, the bridge_ids recorded in
\* bridge_summary.json are pairwise distinct, each has exactly one mesh
\* file and, when components are requested, its subdirectory with exactly
\* one mesh file per named component.
C23_OneMeshFilePerRecordedBridge ==
    GenerateBridgesEnded =>
        LET recorded == pipeline.summary[1]
        IN  /\ \A i, j \in DOMAIN recorded :
                  i # j => recorded[i].bridge_id # recorded[j].bridge_id
            /\ \A i \in DOMAIN recorded :
                  LET bridge_id == recorded[i].bridge_id
                  IN  /\ Cardinality(MeshFiles(bridge_id, "")) = 1
                      /\ pipeline.include_components =>
                            /\ File(bridge_id, "", "/") \in pipeline.files
                            /\ \A k \in 1 .. Len(ComponentNames) :
                                  Cardinality(MeshFiles(bridge_id,
                                                        ComponentNames[k])) = 1


(***************************************************************************)
(* Properties of the layout of the components (under SpecLayout).          *)
(***************************************************************************)

\* make_piers was called on a config of a supported pier type and
\* cross-section with at least one pier across the width.
CalledMakePiers ==
    /\ Called("make_piers (solids)")
    /\ call[1].config.pier_cross_section \in {"circular", "rectangular"}
    /\ call[1].config.number_of_piers_across_width >= 1

Columns(c) == {s \in c.value : s.kind = "column"}

Caps(c) == {s \in c.value : s.kind = "cap"}

\* C24: for both pier types and both cross-sections, every column runs from
\* z = -(depth_of_girder + cap_height + bridge_clearance_height) up to the
\* cap underside z = -(depth_of_girder + cap_height), and every cap from
\* there up to the girder soffit z = -depth_of_girder (z in twentieths of a
\* metre, cap_height 0.5 m for multicolumn and 2 m for hammer-head piers).
C24_ColumnBelowCap ==
    (CalledMakePiers /\ call[1].status = "returned") =>
        LET c          == call[1]
            cap_height == IF c.config.pier_type = "multicolumn" THEN 10 ELSE 40
            soffit     == 0 - 2 * c.config.depth_of_girder
            clearance  == 2 * c.config.bridge_clearance_height
        IN  /\ \A s \in Columns(c) :
                  s.z = <<soffit - cap_height - clearance, soffit - cap_height>>
            /\ \A s \in Caps(c) : s.z = <<soffit - cap_height, soffit>>

\* C25: for every multicolumn config, whatever its
\* number_of_piers_along_length, make_piers places one column at each
\* (x_i, y_j), x_i over the num_spans - 1 pier positions and y_j =
\* -spacing*(n-1)/2 + spacing*j for j in 0..n-1 with n =
\* number_of_piers_across_width and spacing = width_m / n: (num_spans - 1) * n
\* columns, and one cap per longitudinal position.
C25_ColumnAtEveryPierPosition ==
    (CalledMakePiers /\ call[1].config.pier_type = "multicolumn") =>
        LET c == call[1]
            n == c.config.number_of_piers_across_width
        IN  /\ c.status = "returned"
            /\ Len(c.pier_positions_x) = c.config.num_spans - 1
            /\ Cardinality(Columns(c)) = (c.config.num_spans - 1) * n
            /\ \A i \in 1 .. c.config.num_spans - 1, j \in 0 .. n - 1 :
                  \E s \in Columns(c) :
                      /\ s.x = c.pier_positions_x[i]
                      /\ s.y = c.config.width_m * (2 * j - (n - 1))
            /\ Cardinality(Caps(c)) = c.config.num_spans - 1
            /\ \A i \in 1 .. c.config.num_spans - 1 :
                  \E s \in Caps(c) : s.x = c.pier_positions_x[i]


\* C27: for every deck length the number of poles per side is
\* max(2, floor(total_length_m / 2.5)), the poles are 2.5 m apart and centred
\* on x = 0, and each of the 3 bars of a side spans exactly from the first
\* pole to the last: 2.5 * (num_poles - 1).  x in twentieths of a metre;
\* stated for decks of 26 m and more.
C27_RailingBarsBetweenEndPoles ==
    (Called("make_railings") /\ call[1].total_length_m >= 260) =>
        LET c == call[1]
            n == c.num_of_poles
        IN  /\ n = Max(2, c.total_length_m \div 25)
            /\ Len(c.poles) = n
            /\ \A i \in 1 .. n - 1 : c.poles[i + 1] - c.poles[i] = 50
            /\ c.poles[1] = 0 - c.poles[n]
            /\ \A side \in {"left", "right"} :
                  Cardinality({b \in c.bars : b.side = side}) = 3
            /\ \A b \in c.bars :
                  /\ b.x = <<c.poles[1], c.poles[n]>>
                  /\ b.x[2] - b.x[1] = 50 * (n - 1)

\* C28: in the 1-cell and in the 2-cell case alike, the cells of the
\* box-girder deck are centred across the width and together cover exactly
\* |y| <= num_cells * cell_width / 2 = (width_m - 4) / 2, and each of the two
\* mirrored haunch wedges runs from the outer face of the outermost cell to
\* the slab edge |y| = width_m / 2.  y in eighths of a metre, width_m in half
\* metres; stated for decks of 12 m and more across.
C28_CellsCentredHaunchAtOuterFace ==
    (Called("make_box_girder_deck") /\ call[1].status = "returned"
        /\ call[1].width_m >= 24) =>
        LET c     == call[1]
            deck  == c.value
            n     == deck.num_cells
            outer == 2 * c.width_m - 16            \* (width_m - 4) / 2
            edge  == 2 * c.width_m                 \* width_m / 2
        IN  /\ n \in {1, 2}
            /\ deck.cells[1][1] = 0 - outer
            /\ deck.cells[n][2] = outer
            /\ \A i \in 1 .. n - 1 : deck.cells[i][2] = deck.cells[i + 1][1]
            /\ \A i \in 1 .. n : deck.cells[i][2] - deck.cells[i][1] = (2 * outer) \div n
            /\ deck.haunch = <<outer, edge>>
            /\ deck.haunch_mirror = <<0 - edge, 0 - outer>>

\* C30: for every config, the bottom of every pier column is at the same z
\* as the bottom of the wing walls and of the back walls, namely
\* -(depth_of_girder + bridge_clearance_height).  z in twentieths of a metre.
C30_SharedBaseElevation ==
    (Called("build_bridge (piers and walls)") /\ call[1].status = "returned") =>
        LET c    == call[1]
            base == 0 - 2 * (c.config.depth_of_girder
                               + c.config.bridge_clearance_height)
        IN  /\ \A s \in Columns(c) : s.z[1] = base
            /\ \A w \in c.wing_walls : w.z[1] = base
            /\ \A w \in c.back_walls : w.z[1] = base

(***************************************************************************)
(* Symmetry of the pier positions (under SpecDerived).                     *)
(***************************************************************************)

\* C26: for every config with num_spans >= 2 the list of pier positions is
\* symmetric about 0: with every position p it holds -p, and for num_spans
\* = 2 the single pier is at 0.  Stated for decks of 26 m and more (the
\* shortest the sampler produces) whose roundings are off ties.
C26_PierPositionsSymmetric ==
    (Called("compute_pier_positions_along_length")
        /\ call[1].num_spans >= 2 /\ call[1].total_length_m >= 260
        /\ RoundingsOffTies(call[1])) =>
        /\ \A i \in DOMAIN call[1].positions :
              \E j \in DOMAIN call[1].positions :
                  call[1].positions[j] = 0 - call[1].positions[i]
        /\ call[1].num_spans = 2 => call[1].positions = <<0>>

=============================================================================
